---- MODULE Spec2Model ----
(***************************************************************************)
(* Trinetra AI Web Guardian: the background service worker's decision      *)
(* logic (src/background.js).  The state is the per-tab result store, the  *)
(* session override set, the stored API credential, the clock, the pages   *)
(* loaded in the tabs and the analyzeWithAI calls that are suspended at    *)
(* one of their two awaits (getApiKey, fetch).                             *)
(*                                                                         *)
(* Strings whose characters matter (hostnames, the AI's status field) are  *)
(* sequences of one-character strings, so that endsWith, the www. strip,   *)
(* trim and toUpperCase are computed, not assumed.                         *)
(***************************************************************************)
EXTENDS Integers, Sequences, FiniteSets, Bags, TLC

VARIABLES tabUrl, tabAnalysisResults, sessionProceededUrls, apiKey,
          calls, loads, ev, aiResponse, popup

vars == <<tabUrl, tabAnalysisResults, sessionProceededUrls, apiKey,
          calls, loads, ev, aiResponse, popup>>

-----------------------------------------------------------------------------
(* Bounds of the model *)

(* analyzeWithAI calls suspended at the same time *)
MaxCalls == 2

(* Page loads in a run *)
MaxLoads == 2

(* Granularity of the clock: one Tick is a minute and a half of Date.now() *)
TickMs == 90 * 1000

(* The tabs of the browser *)
TabIds == {1, 2}

-----------------------------------------------------------------------------
(* Program constants *)

ANALYSIS_CACHE_DURATION_MS == 3 * 60 * 1000

WHITELISTED_DOMAINS ==
    { <<"g","o","o","g","l","e",".","c","o","m">>,
      <<"y","o","u","t","u","b","e",".","c","o","m">>,
      <<"g","m","a","i","l",".","c","o","m">>,
      <<"g","i","t","h","u","b",".","c","o","m">>,
      <<"s","t","a","c","k","o","v","e","r","f","l","o","w",".","c","o","m">>,
      <<"d","e","v","e","l","o","p","e","r",".","c","h","r","o","m","e",".","c","o","m">>,
      <<"d","e","v","e","l","o","p","e","r",".","m","o","z","i","l","l","a",".","o","r","g">>,
      <<"w","i","k","i","p","e","d","i","a",".","o","r","g">>,
      <<"m","e","d","i","u","m",".","c","o","m">> }

-----------------------------------------------------------------------------
(* String helpers: JavaScript's startsWith / endsWith on character lists *)

startsWith(s, p) ==
    /\ Len(p) <= Len(s)
    /\ SubSeq(s, 1, Len(p)) = p

endsWith(s, p) ==
    /\ Len(p) <= Len(s)
    /\ SubSeq(s, Len(s) - Len(p) + 1, Len(s)) = p

-----------------------------------------------------------------------------
(* The pages of the model.  A URL is its hostname and its path; two URLs   *)
(* are the same string exactly when both agree.                            *)

UrlGithub ==
    [host |-> <<"g","i","s","t",".","g","i","t","h","u","b",".","c","o","m">>, path |-> "/foo"]

UrlEvil ==
    [host |-> <<"e","v","i","l",".","t","e","s","t">>, path |-> "/login"]

UrlEvilWww ==
    [host |-> <<"w","w","w",".","e","v","i","l",".","t","e","s","t">>, path |-> "/pay"]

Urls == {UrlGithub, UrlEvil, UrlEvilWww}

(* A page whose hostname ends with the characters of a whitelist entry and *)
(* is no subdomain of it                                                   *)
UrlLookalike ==
    [host |-> <<"n","o","t","g","i","t","h","u","b",".","c","o","m">>, path |-> "/login"]

(* The http(s) pages of the model *)
Pages == Urls \cup {UrlLookalike}

(* A tab that shows a page that is not http(s): chrome://newtab/.  Its URL  *)
(* parses, with the hostname newtab.  And a closed tab.                    *)
NoPage == [host |-> <<"n","e","w","t","a","b">>, path |-> "chrome:"]

Closed == [host |-> <<>>, path |-> "closed"]

(* getDomain: new URL(url).hostname.replace(/^www\./, ''), null on a parse failure *)
NullDomain == <<>>

(* Variant: the hostname as it is, www. included *)
getDomainHostname(url) == url.host

getDomain(url) ==
    IF url.host = <<>> THEN NullDomain
    ELSE IF startsWith(url.host, <<"w","w","w",".">>)
         THEN SubSeq(url.host, 5, Len(url.host))
         ELSE url.host

(* Variant: the domain is itself an entry of the whitelist *)
isWhitelistedExact(url) ==
    /\ getDomain(url) # NullDomain
    /\ getDomain(url) \in WHITELISTED_DOMAINS

(* domain && WHITELISTED_DOMAINS.some(w => domain.endsWith(w)) *)
isWhitelisted(url) ==
    /\ getDomain(url) # NullDomain
    /\ \E whitelistedDomain \in WHITELISTED_DOMAINS :
          endsWith(getDomain(url), whitelistedDomain)

-----------------------------------------------------------------------------
(* The classifier's completion, as analyzeWithAI reads it (lines 191-271). *)
(*                                                                         *)
(* A completion is either a rejected fetch or an HTTP response with its ok *)
(* flag and its body.  The body is text that is not JSON, or a JSON value: *)
(* null, a scalar, or an object whose candidates member has one of the     *)
(* shapes the chain of && at line 228 tells apart.  The text part is again *)
(* not JSON, or the JSON value the model wrote: null, a scalar, or an      *)
(* object with a status and an explanation member.                         *)

LowerCase ==
    <<"a","b","c","d","e","f","g","h","i","j","k","l","m",
      "n","o","p","q","r","s","t","u","v","w","x","y","z">>

UpperCase ==
    <<"A","B","C","D","E","F","G","H","I","J","K","L","M",
      "N","O","P","Q","R","S","T","U","V","W","X","Y","Z">>

WhiteSpace == {" ", "\t"}

(* String.prototype.toUpperCase *)
toUpperCaseChar(c) ==
    IF \E i \in 1..Len(LowerCase) : LowerCase[i] = c
    THEN UpperCase[CHOOSE i \in 1..Len(LowerCase) : LowerCase[i] = c]
    ELSE c

toUpperCase(s) == [i \in 1..Len(s) |-> toUpperCaseChar(s[i])]

(* String.prototype.trim *)
RECURSIVE trimStart(_)
trimStart(s) ==
    IF s # <<>> /\ Head(s) \in WhiteSpace THEN trimStart(Tail(s)) ELSE s

RECURSIVE trimEnd(_)
trimEnd(s) ==
    IF s # <<>> /\ s[Len(s)] \in WhiteSpace
    THEN trimEnd(SubSeq(s, 1, Len(s) - 1))
    ELSE s

trim(s) == trimEnd(trimStart(s))

STATUS_SAFE == <<"S","A","F","E">>

STATUS_SUSPICIOUS == <<"S","U","S","P","I","C","I","O","U","S">>

STATUS_DANGEROUS == <<"D","A","N","G","E","R","O","U","S">>

(* The array literal of line 243, with the name each entry is stored under *)
KnownStatuses == {STATUS_SAFE, STATUS_SUSPICIOUS, STATUS_DANGEROUS}

StatusName(s) ==
    IF s = STATUS_SAFE THEN "SAFE"
    ELSE IF s = STATUS_SUSPICIOUS THEN "SUSPICIOUS"
    ELSE "DANGEROUS"

(* Values of aiAnalysis.status that the model may send *)
StatusStrings ==
    { <<"S","A","F","E">>,
      <<"s","a","f","e">>,
      <<" ","S","a","f","e"," ">>,
      <<"S","U","S","P","I","C","I","O","U","S">>,
      <<"s","u","s","p","i","c","i","o","u","s","\t">>,
      <<"D","A","N","G","E","R","O","U","S">>,
      <<" ","d","a","n","g","e","r","o","u","s">>,
      <<"D","a","n","g","e","r","o","u","s">>,
      <<"w","e","i","r","d">>,
      <<" ">>,
      <<"u","n","s","a","f","e">>,
      <<"s"," ","a","f","e">>,
      <<"[","S","A","F","E","]">>,
      <<"E","R","R","O","R">>,
      <<"P","E","N","D","I","N","G">>,
      <<"S","A","F","E"," ","S","A","F","E">> }

AiStatusValues ==
    {[t |-> "absent"], [t |-> "number"], [t |-> "string", s |-> <<>>]}
    \cup {[t |-> "string", s |-> s] : s \in StatusStrings}

(* JavaScript truthiness of a member: absent and "" are falsy *)
isTruthy(v) ==
    /\ v.t # "absent"
    /\ ~(v.t = "string" /\ v.s = <<>>)

AiAnalysisValues ==
    {[t |-> "null"], [t |-> "scalar"]}
    \cup [t : {"object"}, status : AiStatusValues, explanation : BOOLEAN]

AiTexts ==
    {[t |-> "notjson"]} \cup [t : {"json"}, v : AiAnalysisValues]

CandidateShapes ==
    {"absent", "emptyArray", "noContent", "noParts", "emptyParts", "noText"}

ResultJsons ==
    {[t |-> "null"], [t |-> "scalar"]}
    \cup [t : {"object"}, candidates : CandidateShapes, blockReason : BOOLEAN]
    \cup [t : {"object"}, candidates : {"text"}, text : AiTexts, blockReason : BOOLEAN]

Bodies == {[t |-> "notjson"]} \cup ResultJsons

Responses ==
    {[t |-> "reject"]} \cup [t : {"http"}, ok : BOOLEAN, body : Bodies]

NoResponse == [t |-> "none"]

(* The (status, explanation) pair a path hands to updateTabStatus.  The     *)
(* explanation is kept as the kind of message the code builds: the AI's    *)
(* explanation, the unknown-status notice, or one of the error messages of *)
(* lines 214, 224, 237, 253, 262, 265 and 270.                             *)
Verdict(status, explanation) == [status |-> status, explanation |-> explanation]

(* Variant: the status is compared as sent, without toUpperCase().trim() *)
classifyAnalysisAsIs(aiAnalysis) ==
    IF aiAnalysis.t = "object" /\ isTruthy(aiAnalysis.status) /\ aiAnalysis.explanation
    THEN IF aiAnalysis.status.t # "string"
         THEN Verdict("ERROR", "error message")
         ELSE IF aiAnalysis.status.s \in KnownStatuses
              THEN Verdict(StatusName(aiAnalysis.status.s), "ai explanation")
              ELSE Verdict("SUSPICIOUS", "unknown status")
    ELSE Verdict("ERROR", "error message")

(* Variant: only the status member is required, not the explanation *)
classifyAnalysisStatusOnly(aiAnalysis) ==
    IF aiAnalysis.t = "object" /\ isTruthy(aiAnalysis.status)
    THEN IF aiAnalysis.status.t # "string"
         THEN Verdict("ERROR", "error message")
         ELSE LET normalizedStatus == trim(toUpperCase(aiAnalysis.status.s))
              IN  IF normalizedStatus \in KnownStatuses
                  THEN Verdict(StatusName(normalizedStatus), "ai explanation")
                  ELSE Verdict("SUSPICIOUS", "unknown status")
    ELSE Verdict("ERROR", "error message")

(* Variant: a status that is none of the three known ones counts as SAFE *)
classifyAnalysisUnknownIsSafe(aiAnalysis) ==
    IF aiAnalysis.t = "object" /\ isTruthy(aiAnalysis.status) /\ aiAnalysis.explanation
    THEN IF aiAnalysis.status.t # "string"
         THEN Verdict("ERROR", "error message")
         ELSE LET normalizedStatus == trim(toUpperCase(aiAnalysis.status.s))
              IN  IF normalizedStatus \in KnownStatuses
                  THEN Verdict(StatusName(normalizedStatus), "ai explanation")
                  ELSE Verdict("SAFE", "unknown status")
    ELSE Verdict("ERROR", "error message")

(* lines 241-254: the parsed text part *)
classifyAnalysis(aiAnalysis) ==
    IF aiAnalysis.t = "object" /\ isTruthy(aiAnalysis.status) /\ aiAnalysis.explanation
    THEN IF aiAnalysis.status.t # "string"
         THEN (* toUpperCase is not a function: TypeError, caught at line 268 *)
              Verdict("ERROR", "error message")
         ELSE LET normalizedStatus == trim(toUpperCase(aiAnalysis.status.s))
              IN  IF normalizedStatus \in KnownStatuses
                  THEN Verdict(StatusName(normalizedStatus), "ai explanation")
                  ELSE Verdict("SUSPICIOUS", "unknown status")
    ELSE Verdict("ERROR", "error message")

(* lines 228-266: the parsed body *)
classifyResultJson(resultJson) ==
    IF resultJson.t = "null"
    THEN (* resultJson.candidates on null: TypeError, caught at line 268 *)
         Verdict("ERROR", "error message")
    ELSE IF resultJson.t = "scalar"
    THEN Verdict("ERROR", "error message")
    ELSE IF resultJson.candidates \in {"emptyArray", "emptyParts"}
    THEN (* candidates[0].content / parts[0].text on undefined: TypeError *)
         Verdict("ERROR", "error message")
    ELSE IF resultJson.candidates = "text"
    THEN IF resultJson.text.t = "notjson"
         THEN Verdict("ERROR", "error message")
         ELSE classifyAnalysis(resultJson.text.v)
    ELSE IF resultJson.blockReason
    THEN Verdict("ERROR", "error message")
    ELSE Verdict("ERROR", "error message")

(* lines 191-271: everything after the fetch settles *)
classifyResponse(response) ==
    IF response.t = "reject"
    THEN Verdict("ERROR", "error message")
    ELSE IF ~response.ok
    THEN IF response.body.t \in {"notjson", "null"}
         THEN (* response.text() on a consumed body rejects, and           *)
              (* errorBody.error on null is a TypeError: both reach 268    *)
              Verdict("ERROR", "error message")
         ELSE Verdict("ERROR", "error message")
    ELSE IF response.body.t = "notjson"
    THEN Verdict("ERROR", "error message")
    ELSE classifyResultJson(response.body)

(* Every pair a completion can hand to updateTabStatus *)
Verdicts == {classifyResponse(r) : r \in Responses}

-----------------------------------------------------------------------------
(* The result store *)

(* tabAnalysisResults[tabId] after delete (or before any write), after the *)
(* assignment of null at line 401, and after updateTabStatus.  The code    *)
(* reads a record's timestamp only in Date.now() - timestamp (line 362),   *)
(* so the record keeps that difference, its age, which Tick advances and   *)
(* which stops at the cache duration.                                      *)
Undefined == [kind |-> "undefined"]

Null == [kind |-> "null"]

Record(url, status, explanation, age) ==
    [kind |-> "record", url |-> url, status |-> status,
     explanation |-> explanation, age |-> age]

hasResult(tabId) == tabAnalysisResults[tabId].kind = "record"

(* The reply of GET_TAB_STATUS when the slot is falsy (line 373) *)
PendingPlaceholder == [kind |-> "placeholder", status |-> "PENDING"]

(* Variant: the write lands in the slot of every tab *)
updateTabStatusEveryTab(tabId, url, status, explanation) ==
    [t \in TabIds |-> Record(url, status, explanation, 0)]

(* lines 283-288: the write of updateTabStatus, timestamp: Date.now() *)
updateTabStatus(tabId, url, status, explanation) ==
    [tabAnalysisResults EXCEPT ![tabId] = Record(url, status, explanation, 0)]

(* The notifications a step creates, in order; each has the id the code    *)
(* builds from the tab (tabId + "_trinetra_danger") and its buttons.       *)
NoNotification == <<>>

(* Variant: a notification for every status that is not SAFE *)
notificationForNotSafe(tabId, status) ==
    IF status = "SAFE" THEN NoNotification
    ELSE <<[tabId |-> tabId, id |-> "danger", buttons |-> 2]>>

(* Variant: the SUSPICIOUS notification has the two buttons as well *)
notificationForWithButtons(tabId, status) ==
    IF status = "DANGEROUS"
    THEN <<[tabId |-> tabId, id |-> "danger", buttons |-> 2]>>
    ELSE IF status = "SUSPICIOUS"
    THEN <<[tabId |-> tabId, id |-> "suspicious", buttons |-> 2]>>
    ELSE NoNotification

(* lines 297-316: the notifications updateTabStatus creates *)
notificationFor(tabId, status) ==
    IF status = "DANGEROUS"
    THEN <<[tabId |-> tabId, id |-> "danger", buttons |-> 2]>>
    ELSE IF status = "SUSPICIOUS"
    THEN <<[tabId |-> tabId, id |-> "suspicious", buttons |-> 0]>>
    ELSE NoNotification

-----------------------------------------------------------------------------
(* The popup (src/popup.js).  While it is open it keeps currentTabId and   *)
(* currentTabUrl, and shows a view: the verdict view that updatePopupUI    *)
(* writes (status class and explanation), or one of the messages that      *)
(* saveApiKey, clearApiKey and the initialization write.  actions is       *)
(* actionsDiv.style.display = 'flex'.                                      *)

ClosedPopup == [open |-> FALSE]

(* currentTabUrl after currentTabUrl = data.url with data the placeholder *)
UndefinedUrl == [host |-> <<>>, path |-> "undefined"]

Popup(tabId, url, view, status, explanation, actions) ==
    [open |-> TRUE, currentTabId |-> tabId, currentTabUrl |-> url, view |-> view,
     status |-> status, explanation |-> explanation, actions |-> actions]

(* What UPDATE_POPUP_DATA and the replies carry: a record, seen from the   *)
(* popup, is its url, status and explanation.                              *)
dataOf(result) ==
    IF result.kind = "record"
    THEN [kind |-> "record", url |-> result.url, status |-> result.status,
          explanation |-> result.explanation]
    ELSE result

(* Variant: the actions are shown for every status but SAFE and PENDING *)
actionsDisplayUnlessSafe(status) == status \in {"SUSPICIOUS", "DANGEROUS", "ERROR"}

(* lines 125-157: actionsDiv.style.display = 'flex' in the switch *)
actionsDisplay(status) == status \in {"SUSPICIOUS", "DANGEROUS"}

(* lines 107-162: updatePopupUI(data) in the popup p *)
updatePopupUI(p, data) ==
    IF data.kind = "none"
    THEN (* !data || !data.status *)
         [p EXCEPT !.view = "awaiting", !.status = "PENDING",
                   !.explanation = "awaiting data", !.actions = FALSE]
    ELSE [p EXCEPT !.currentTabUrl = IF data.kind = "record" THEN data.url ELSE UndefinedUrl,
                   !.view = "verdict",
                   !.status = IF data.status \in {"SAFE", "SUSPICIOUS", "DANGEROUS", "ERROR"}
                              THEN data.status ELSE "PENDING",
                   !.explanation = IF data.kind = "record" THEN data.explanation
                                   ELSE "analyzing or no data",
                   !.actions = actionsDisplay(data.status)]

(* lines 187-197: the popup, if open, receives UPDATE_POPUP_DATA *)
receiveUpdate(p, data) ==
    IF ~p.open THEN p
    ELSE IF data.url = p.currentTabUrl THEN updatePopupUI(p, data)
    ELSE IF p.currentTabUrl = UndefinedUrl THEN updatePopupUI(p, data)
    ELSE p

-----------------------------------------------------------------------------
(* The suspended analyzeWithAI calls: a bag, two calls for the same tab    *)
(* and URL can be in flight together.                                      *)

(* proceeded remembers whether the URL was in sessionProceededUrls when    *)
(* the PAGE_DATA message of the call arrived.                              *)
Call(stage, tabId, url, proceeded) ==
    [stage |-> stage, tabId |-> tabId, url |-> url, proceeded |-> proceeded]

(* Whether the message carries html and the four arrays, or omits some *)
PageDataKinds == {"full", "partial"}

Suspended(stage) == {c \in BagToSet(calls) : c.stage = stage}

NoReply == [kind |-> "none"]

(* What the last step did: the handler that ran, its tab and URL, the path *)
(* it took, the notification it created and the reply it sent; proceeded   *)
(* is the flag of the call, or of the message, the step handled.           *)
Event(op, tabId, url, out, notification, reply) ==
    [op |-> op, tabId |-> tabId, url |-> url, out |-> out,
     notification |-> notification, reply |-> reply, proceeded |-> FALSE]

EventOf(c, op, out, notification) ==
    [op |-> op, tabId |-> c.tabId, url |-> c.url, out |-> out,
     notification |-> notification, reply |-> NoReply, proceeded |-> c.proceeded]

-----------------------------------------------------------------------------
Init ==
    /\ tabUrl = [t \in TabIds |-> NoPage]
    /\ tabAnalysisResults = [t \in TabIds |-> Undefined]
    /\ sessionProceededUrls = {}
    /\ apiKey = FALSE
    /\ calls = EmptyBag
    /\ loads = 0
    /\ ev = Event("init", 0, NoPage, "", NoNotification, NoReply)
    /\ aiResponse = NoResponse
    /\ popup = ClosedPopup

(* tab.url.startsWith('http://') || tab.url.startsWith('https://') *)
isHttp(url) == url \in Pages

(* The user loads a page in an open tab *)
Navigate(tabId, url) ==
    /\ tabUrl[tabId] # Closed
    /\ loads < MaxLoads
    /\ loads' = loads + 1
    /\ tabUrl' = [tabUrl EXCEPT ![tabId] = url]
    /\ ev' = Event("navigate", tabId, url, "", NoNotification, NoReply)
    /\ UNCHANGED <<tabAnalysisResults, sessionProceededUrls, apiKey, calls, aiResponse, popup>>

(* Date.now() advances by TickMs: every record ages *)
Tick ==
    /\ tabAnalysisResults' =
          [t \in TabIds |->
              IF hasResult(t)
              THEN [tabAnalysisResults[t] EXCEPT !.age =
                       IF @ + TickMs < ANALYSIS_CACHE_DURATION_MS
                       THEN @ + TickMs ELSE ANALYSIS_CACHE_DURATION_MS]
              ELSE tabAnalysisResults[t]]
    /\ tabAnalysisResults' # tabAnalysisResults
    /\ ev' = Event("tick", 0, NoPage, "", NoNotification, NoReply)
    /\ UNCHANGED <<tabUrl, sessionProceededUrls, apiKey, calls, loads, aiResponse, popup>>

(* Variant: a key is always found *)
getApiKeyAlways == TRUE

(* lines 50-53: the key chrome.storage.local holds, if any *)
getApiKey == apiKey

(* Variant: the override test always fails *)
hasProceededNever(url) == FALSE

(* Variant: a URL of the same domain is in the set *)
hasProceededDomain(url) ==
    \E u \in sessionProceededUrls : getDomain(u) = getDomain(url)

(* lines 125 and 362: sessionProceededUrls.has(url) *)
hasProceeded(url) == url \in sessionProceededUrls

(* Variant: the record is reused at any age *)
cacheHitAnyAge(tabId, url) ==
    /\ hasResult(tabId)
    /\ tabAnalysisResults[tabId].url = url

(* lines 361-362: the condition under which PAGE_DATA reuses the record *)
cacheHit(tabId, url) ==
    /\ hasResult(tabId)
    /\ tabAnalysisResults[tabId].url = url
    /\ \/ hasProceeded(url)
       \/ tabAnalysisResults[tabId].age < ANALYSIS_CACHE_DURATION_MS

(* lines 289-294: updateTabStatus sends the new record to the popup *)
pushed(p, url, status, explanation) ==
    receiveUpdate(p, [kind |-> "record", url |-> url, status |-> status,
                      explanation |-> explanation])

(* lines 355-370: a content script of the tab's page sends PAGE_DATA; op   *)
(* names what made it run and p is the popup at that moment.  On a hit the *)
(* record is sent to the popup and nothing is written; otherwise           *)
(* analyzeWithAI starts and suspends at await getApiKey().                 *)
handlePageData(tabId, url, op, p) ==
    IF cacheHit(tabId, url)
    THEN /\ ev' = EventOf(Call("", tabId, url, url \in sessionProceededUrls),
                           op, "cached", NoNotification)
         /\ popup' = receiveUpdate(p, dataOf(tabAnalysisResults[tabId]))
         /\ UNCHANGED calls
    ELSE /\ BagCardinality(calls) < MaxCalls
         /\ LET c == Call("getApiKey", tabId, url, url \in sessionProceededUrls)
            IN  /\ calls' = calls (+) SetToBag({c})
                /\ ev' = EventOf(c, op, "initiated", NoNotification)
         /\ popup' = p

(* content.js lines 71-73, at document_idle of a page load *)
PageData(tabId) ==
    /\ isHttp(tabUrl[tabId])
    /\ handlePageData(tabId, tabUrl[tabId], "PAGE_DATA", popup)
    /\ UNCHANGED <<tabUrl, tabAnalysisResults, sessionProceededUrls, apiKey, loads, aiResponse>>

(* popup.js lines 55-81: the key is stored, the popup shows "Re-analyzing" *)
(* and content.js is injected into the popup's tab, where it runs if the   *)
(* tab shows an http(s) page, and sends PAGE_DATA.                         *)
saveApiKey ==
    /\ popup.open
    /\ apiKey' = TRUE
    /\ LET tabId == popup.currentTabId
           p == [popup EXCEPT !.view = "reanalyzing", !.status = "",
                              !.explanation = "", !.actions = FALSE]
       IN  IF isHttp(tabUrl[tabId])
           THEN handlePageData(tabId, tabUrl[tabId], "saveApiKey", p)
           ELSE /\ ev' = Event("saveApiKey", tabId, tabUrl[tabId], "noinject",
                               NoNotification, NoReply)
                /\ popup' = p
                /\ UNCHANGED calls
    /\ UNCHANGED <<tabUrl, tabAnalysisResults, sessionProceededUrls, loads, aiResponse>>

(* popup.js lines 87-101 *)
clearApiKey ==
    /\ popup.open
    /\ apiKey' = FALSE
    /\ popup' = [popup EXCEPT !.view = "cleared", !.status = "",
                              !.explanation = "", !.actions = FALSE]
    /\ ev' = Event("clearApiKey", 0, NoPage, "", NoNotification, NoReply)
    /\ UNCHANGED <<tabUrl, tabAnalysisResults, sessionProceededUrls, calls, loads, aiResponse>>

(* One call of updateTabStatus by the call c: the write, the message to    *)
(* the popup, the notifications                                            *)
writes(c, status, explanation, out) ==
    /\ tabAnalysisResults' = updateTabStatus(c.tabId, c.url, status, explanation)
    /\ popup' = pushed(popup, c.url, status, explanation)
    /\ ev' = EventOf(c, IF out = "written" THEN "fetchSettles" ELSE "analyzeWithAI",
                     out, notificationFor(c.tabId, status))

(* lines 111-148 and the fetch of line 192: analyzeWithAI resumes with the *)
(* stored key and runs up to its next await, or to its return.  data is    *)
(* the kind of the message the call was started with.                      *)
analyzeWithAI(c, data) ==
    /\ c \in Suspended("getApiKey")
    /\ LET rest == calls (-) SetToBag({c})
       IN  IF ~getApiKey
           THEN /\ writes(c, "ERROR", "API key missing", "nokey")
                /\ calls' = rest
           ELSE IF isWhitelisted(c.url)
           THEN /\ writes(c, "SAFE", "trusted whitelist", "whitelisted")
                /\ calls' = rest
           ELSE IF hasProceeded(c.url)
           THEN /\ writes(c, "SAFE", "proceeded earlier", "proceeded")
                /\ calls' = rest
           ELSE IF data = "partial"
           THEN (* htmlString.match or pageData.scripts.filter on undefined: *)
                (* the promise of analyzeWithAI rejects                     *)
                /\ calls' = rest
                /\ ev' = EventOf(c, "analyzeWithAI", "threw", NoNotification)
                /\ UNCHANGED <<tabAnalysisResults, popup>>
           ELSE /\ calls' = rest (+) SetToBag({[c EXCEPT !.stage = "fetch"]})
                /\ ev' = EventOf(c, "analyzeWithAI", "fetch", NoNotification)
                /\ UNCHANGED <<tabAnalysisResults, popup>>
    /\ UNCHANGED <<tabUrl, sessionProceededUrls, apiKey, loads, aiResponse>>

(* Variant: a call whose completion is an ERROR is started again *)
fetchSettlesRetrying(c, verdict) ==
    /\ c \in Suspended("fetch")
    /\ writes(c, verdict.status, verdict.explanation, "written")
    /\ calls' = IF verdict.status = "ERROR"
                THEN (calls (-) SetToBag({c})) (+) SetToBag({[c EXCEPT !.stage = "getApiKey"]})
                ELSE calls (-) SetToBag({c})
    /\ UNCHANGED <<tabUrl, sessionProceededUrls, apiKey, loads>>

(* lines 205-271: the fetch settles and the verdict is written *)
fetchSettles(c, verdict) ==
    /\ c \in Suspended("fetch")
    /\ writes(c, verdict.status, verdict.explanation, "written")
    /\ calls' = calls (-) SetToBag({c})
    /\ UNCHANGED <<tabUrl, sessionProceededUrls, apiKey, loads>>

FetchCompletes(c) ==
    /\ \E verdict \in Verdicts : fetchSettles(c, verdict)
    /\ UNCHANGED aiResponse

(* Variant: the slot as it is, without || placeholder *)
getTabStatusSlot(tabId) == tabAnalysisResults[tabId]

(* line 373: tabAnalysisResults[tabId] || { status: "PENDING", ... } *)
getTabStatusReply(tabId) ==
    IF hasResult(tabId) THEN tabAnalysisResults[tabId] ELSE PendingPlaceholder

(* lines 371-373 *)
GetTabStatus(tabId) ==
    /\ ev' = Event("GET_TAB_STATUS", tabId, NoPage, "",  NoNotification,
                   getTabStatusReply(tabId))
    /\ UNCHANGED <<tabUrl, tabAnalysisResults, sessionProceededUrls, apiKey, calls,
                   loads, aiResponse, popup>>

(* popup.js lines 200-227: the popup opens on the active tab.  On a page   *)
(* that is not http(s) it shows "Cannot analyze" and leaves the actions as *)
(* the markup has them; otherwise it asks GET_TAB_STATUS and shows the     *)
(* reply.                                                                  *)
OpenPopup(tabId) ==
    /\ ~popup.open
    /\ tabUrl[tabId] # Closed
    /\ IF ~isHttp(tabUrl[tabId])
       THEN /\ \E actions \in BOOLEAN :
                  popup' = Popup(tabId, tabUrl[tabId], "cannot", "", "", actions)
            /\ ev' = Event("openPopup", tabId, tabUrl[tabId], "cannot", NoNotification, NoReply)
       ELSE /\ popup' = updatePopupUI(Popup(tabId, tabUrl[tabId], "", "", "", FALSE),
                                      dataOf(getTabStatusReply(tabId)))
            /\ ev' = Event("openPopup", tabId, tabUrl[tabId], "status", NoNotification,
                           getTabStatusReply(tabId))
    /\ UNCHANGED <<tabUrl, tabAnalysisResults, sessionProceededUrls, apiKey, calls,
                   loads, aiResponse>>

ClosePopup ==
    /\ popup.open
    /\ popup' = ClosedPopup
    /\ ev' = Event("closePopup", 0, NoPage, "", NoNotification, NoReply)
    /\ UNCHANGED <<tabUrl, tabAnalysisResults, sessionProceededUrls, apiKey, calls,
                   loads, aiResponse>>

(* Variant: the URL of the page the tab shows *)
urlOfTab(tabId) == tabUrl[tabId]

(* line 383: const urlToProceed = tabAnalysisResults[request.tabId].url *)
urlToProceed(tabId) == tabAnalysisResults[tabId].url

(* lines 381-389: PROCEED_ANYWAY for an open tab; popup.js lines 175-184:  *)
(* the popup of that tab, if open, shows the newStatus of the reply.       *)
ProceedAnyway(tabId) ==
    /\ tabUrl[tabId] # Closed
    /\ IF hasResult(tabId)
       THEN LET url == urlToProceed(tabId)
                newResults == updateTabStatus(tabId, url, "SAFE", "chose to proceed")
                p == pushed(popup, url, "SAFE", "chose to proceed")
            IN  /\ sessionProceededUrls' = sessionProceededUrls \cup {url}
                /\ tabAnalysisResults' = newResults
                /\ popup' = IF p.open /\ p.currentTabId = tabId
                            THEN updatePopupUI(p, dataOf(newResults[tabId]))
                            ELSE p
                /\ ev' = Event("PROCEED_ANYWAY", tabId, url, "success",
                               notificationFor(tabId, "SAFE"),
                               [kind |-> "proceed", success |-> TRUE, newStatus |-> newResults[tabId]])
       ELSE /\ ev' = Event("PROCEED_ANYWAY", tabId, NoPage, "failure", NoNotification,
                           [kind |-> "proceed", success |-> FALSE])
            /\ UNCHANGED <<tabAnalysisResults, sessionProceededUrls, popup>>
    /\ UNCHANGED <<tabUrl, apiKey, calls, loads, aiResponse>>

(* lines 374-380: GO_BACK_TAB, sent by the popup's Go Back button, and the  *)
(* Go Back button of a notification (lines 330-336): chrome.tabs.goBack    *)
(* loads an earlier page of the tab's history, or fails with lastError     *)
(* when there is none, and the reply is { success: true } either way.      *)
GoBackTab(tabId) ==
    /\ tabUrl[tabId] # Closed
    /\ \/ /\ loads < MaxLoads
          /\ loads' = loads + 1
          /\ \E url \in Urls \cup {NoPage} : tabUrl' = [tabUrl EXCEPT ![tabId] = url]
       \/ UNCHANGED <<tabUrl, loads>>
    /\ ev' = Event("GO_BACK_TAB", tabId, tabUrl'[tabId], "", NoNotification,
                   [kind |-> "goBack", success |-> TRUE])
    /\ UNCHANGED <<tabAnalysisResults, sessionProceededUrls, apiKey, calls, aiResponse, popup>>

(* lines 395-406: a navigation of the tab completes *)
OnUpdated(tabId) ==
    /\ tabUrl[tabId] # Closed
    /\ tabAnalysisResults' =
          IF /\ isHttp(tabUrl[tabId])
             /\ hasResult(tabId)
             /\ getDomain(tabAnalysisResults[tabId].url) # getDomain(tabUrl[tabId])
          THEN [tabAnalysisResults EXCEPT ![tabId] = Null]
          ELSE tabAnalysisResults
    /\ ev' = Event("onUpdated", tabId, tabUrl[tabId], "", NoNotification, NoReply)
    /\ UNCHANGED <<tabUrl, sessionProceededUrls, apiKey, calls, loads, aiResponse, popup>>

(* Variant: closing the tab also forgets the URLs the user proceeded to *)
OnRemovedForgetting(tabId) ==
    /\ tabUrl[tabId] # Closed
    /\ tabUrl' = [tabUrl EXCEPT ![tabId] = Closed]
    /\ tabAnalysisResults' = [tabAnalysisResults EXCEPT ![tabId] = Undefined]
    /\ sessionProceededUrls' = {}
    /\ ev' = Event("onRemoved", tabId, NoPage, "", NoNotification, NoReply)
    /\ UNCHANGED <<apiKey, calls, loads, aiResponse, popup>>

(* lines 409-412: the tab is closed *)
OnRemoved(tabId) ==
    /\ tabUrl[tabId] # Closed
    /\ tabUrl' = [tabUrl EXCEPT ![tabId] = Closed]
    /\ tabAnalysisResults' = [tabAnalysisResults EXCEPT ![tabId] = Undefined]
    /\ ev' = Event("onRemoved", tabId, NoPage, "", NoNotification, NoReply)
    /\ UNCHANGED <<sessionProceededUrls, apiKey, calls, loads, aiResponse, popup>>

(* The events of the tabs in `tabs` *)
NextOn(tabs) ==
    \/ \E tabId \in tabs, url \in Urls \cup {NoPage} : Navigate(tabId, url)
    \/ saveApiKey
    \/ clearApiKey
    \/ \E tabId \in tabs : PageData(tabId)
    \/ \E c \in BagToSet(calls), data \in PageDataKinds : analyzeWithAI(c, data)
    \/ \E c \in BagToSet(calls) : FetchCompletes(c)
    \/ \E tabId \in tabs : GetTabStatus(tabId)
    \/ \E tabId \in tabs : ProceedAnyway(tabId)
    \/ \E tabId \in tabs : OnUpdated(tabId)
    \/ \E tabId \in tabs : OnRemoved(tabId)
    \/ \E tabId \in tabs : OpenPopup(tabId)
    \/ ClosePopup

(* A session in which the user browses in one tab, with the clock running *)
Next ==
    \/ NextOn({1})
    \/ Tick

Spec == Init /\ [][Next]_vars

(* A session with every tab in use, within one reading of the clock *)
NextTabs == NextOn(TabIds)

SpecTabs == Init /\ [][NextTabs]_vars

(* The service worker with every tab in use and the popup closed, within   *)
(* one reading of the clock.  chrome.storage.local outlives the session,   *)
(* so the key may have been stored before the worker started.              *)
InitWorker ==
    /\ tabUrl = [t \in TabIds |-> NoPage]
    /\ tabAnalysisResults = [t \in TabIds |-> Undefined]
    /\ sessionProceededUrls = {}
    /\ apiKey \in BOOLEAN
    /\ calls = EmptyBag
    /\ loads = 0
    /\ ev = Event("init", 0, NoPage, "", NoNotification, NoReply)
    /\ aiResponse = NoResponse
    /\ popup = ClosedPopup

NextWorker ==
    \/ \E tabId \in TabIds, url \in Urls \cup {NoPage} : Navigate(tabId, url)
    \/ \E tabId \in TabIds : PageData(tabId)
    \/ \E c \in BagToSet(calls), data \in PageDataKinds : analyzeWithAI(c, data)
    \/ \E c \in BagToSet(calls) : FetchCompletes(c)
    \/ \E tabId \in TabIds : GetTabStatus(tabId)
    \/ \E tabId \in TabIds : ProceedAnyway(tabId)
    \/ \E tabId \in TabIds : GoBackTab(tabId)
    \/ \E tabId \in TabIds : OnUpdated(tabId)
    \/ \E tabId \in TabIds : OnRemoved(tabId)

SpecWorker == InitWorker /\ [][NextWorker]_vars

(* Every call that analyzeWithAI can suspend *)
CallSpace ==
    [stage : {"getApiKey", "fetch"}, tabId : TabIds, url : Urls, proceeded : BOOLEAN]

(* chrome.storage.local.get answers and fetch settles: a suspended call is *)
(* resumed, whichever other calls are suspended with it.                   *)
Resumes ==
    \A c \in CallSpace :
        /\ WF_vars(\E data \in PageDataKinds : analyzeWithAI(c, data))
        /\ WF_vars(FetchCompletes(c))

SpecWorkerFair == InitWorker /\ [][NextWorker]_vars /\ Resumes

-----------------------------------------------------------------------------
(* One classifier completion: a call for UrlEvil on tab 1 is suspended at  *)
(* its fetch, and the response that settles it is any of Responses.        *)

InitAI ==
    /\ tabUrl = [t \in TabIds |-> IF t = 1 THEN UrlEvil ELSE NoPage]
    /\ tabAnalysisResults = [t \in TabIds |-> Undefined]
    /\ sessionProceededUrls = {}
    /\ apiKey = TRUE
    /\ calls = SetToBag({Call("fetch", 1, UrlEvil, FALSE)})
    /\ loads = 1
    /\ ev = EventOf(Call("fetch", 1, UrlEvil, FALSE), "analyzeWithAI", "fetch", NoNotification)
    /\ aiResponse \in Responses
    /\ popup = ClosedPopup

FetchAnswers(c) ==
    /\ fetchSettles(c, classifyResponse(aiResponse))
    /\ UNCHANGED aiResponse

NextAI == \E c \in BagToSet(calls) : FetchAnswers(c)

SpecAI == InitAI /\ [][NextAI]_vars

-----------------------------------------------------------------------------
(* One verdict: tab 1 shows a page whose analysis has just started, with   *)
(* or without a stored key, the page's URL overridden earlier in the       *)
(* session or not, and the classifier answers with any of Responses.       *)

InitVerdict ==
    \E url \in Pages, overridden \in BOOLEAN :
        LET c == Call("getApiKey", 1, url, overridden)
        IN  /\ tabUrl = [t \in TabIds |-> IF t = 1 THEN url ELSE NoPage]
            /\ tabAnalysisResults = [t \in TabIds |-> Undefined]
            /\ sessionProceededUrls = IF overridden THEN {url} ELSE {}
            /\ apiKey \in BOOLEAN
            /\ calls = SetToBag({c})
            /\ loads = 1
            /\ ev = EventOf(c, "PAGE_DATA", "initiated", NoNotification)
            /\ aiResponse \in Responses
            /\ popup = ClosedPopup

NextVerdict ==
    \/ PageData(1)
    \/ \E c \in BagToSet(calls), data \in PageDataKinds : analyzeWithAI(c, data)
    \/ \E c \in BagToSet(calls) : FetchAnswers(c)
    \/ ProceedAnyway(1)

SpecVerdict == InitVerdict /\ [][NextVerdict]_vars

-----------------------------------------------------------------------------
(* The payload of the classifier (lines 61-64 and 131-148).                *)
(*                                                                         *)
(* A text is a JavaScript value: absent (undefined) or a string, kept as   *)
(* its characters.  A maximum length is a JavaScript number; the call      *)
(* sites pass integers and the quotients MAX_HTML_SNIPPET_CHARS / 3, / 4   *)
(* and / 5, so a maximum is kept as a fraction n / d.                      *)

MAX_DATA_PAYLOAD_CHARS == 30000

(* Longest text of the model, apart from the serialized payload *)
MaxTextLen == 5

(* Longest list of scripts, forms, iframes or links a page sends *)
MaxItems == 16

Absent == [t |-> "absent"]

JsString(s) == [t |-> "string", s |-> s]

Number(n, d) == [n |-> n, d |-> d]

Marker == <<".", ".", ".">>

Min(a, b) == IF a < b THEN a ELSE b

(* String.prototype.substring(0, end): end is truncated to an integer, and *)
(* clamped to 0 and to the length                                          *)
substring0(s, end) ==
    LET e == IF end.n <= 0 THEN 0 ELSE end.n \div end.d
    IN  SubSeq(s, 1, Min(e, Len(s)))

(* Variant: the text is cut at maxLength and the marker is appended *)
truncateTextThenMarker(text, maxLength) ==
    IF ~isTruthy(text) THEN <<>>
    ELSE IF Len(text.s) * maxLength.d > maxLength.n
         THEN substring0(text.s, maxLength) \o Marker
         ELSE text.s

(* lines 61-64 *)
truncateText(text, maxLength) ==
    IF ~isTruthy(text) THEN <<>>
    ELSE IF Len(text.s) * maxLength.d > maxLength.n
         THEN substring0(text.s, Number(maxLength.n - 3 * maxLength.d, maxLength.d)) \o Marker
         ELSE text.s

(* Array.prototype.slice(0, count) *)
slice(list, count) == SubSeq(list, 1, Min(Len(list), count))

(* Array.prototype.filter(s => s): the entries that are not "".  The       *)
(* second conjunct of lines 136 and 146, !s.startsWith(pageData.url.origin), *)
(* compares with the text "undefined" and keeps every URL.                 *)
filterTruthy(list) == SelectSeq(list, LAMBDA s : s # <<>>)

(* The texts and maximum lengths of the model *)
RECURSIVE TextsOfLen(_)
TextsOfLen(n) ==
    IF n = 0 THEN {<<>>}
    ELSE {Append(s, c) : s \in TextsOfLen(n - 1), c \in {"a", "."}}

Texts == {Absent} \cup {JsString(s) : s \in UNION {TextsOfLen(n) : n \in 0..MaxTextLen}}

MaxLengths ==
    {Number(n, 1) : n \in 0..MaxTextLen}
    \cup {Number(10, 3), Number(17, 4), Number(16, 5), Number(7, 3)}

(* The lists a page sends: k URLs, or k URLs after an empty entry *)
Items(k) == [i \in 1..k |-> <<"u">>]

ItemLists ==
    {Items(k) : k \in {0, 7, 8, 15, MaxItems}} \cup {<<<<>>>> \o Items(15)}

(* The serialization JSON.stringify returns: a string of the given length *)
Serialized(len) == JsString([i \in 1..len |-> "x"])

SerializedLengths == {2, MAX_DATA_PAYLOAD_CHARS, MAX_DATA_PAYLOAD_CHARS + 1}

(* The calls of the model: truncateText with a text and a maximum, and the *)
(* payload construction of analyzeWithAI with the lists of the page and    *)
(* the length of the serialization                                         *)
PayloadCalls ==
    [op : {"call truncateText"}, text : Texts, maxLength : MaxLengths]
    \cup [op : {"call dataToAnalyze"}, scripts : ItemLists, forms : ItemLists,
          iframes : ItemLists, links : ItemLists, len : SerializedLengths]

InitPayload ==
    /\ tabUrl = [t \in TabIds |-> NoPage]
    /\ tabAnalysisResults = [t \in TabIds |-> Undefined]
    /\ sessionProceededUrls = {}
    /\ apiKey = TRUE
    /\ calls = EmptyBag
    /\ loads = 0
    /\ ev \in PayloadCalls
    /\ aiResponse = NoResponse
    /\ popup = ClosedPopup

(* The call of truncateText returns *)
TruncateText ==
    /\ ev.op = "call truncateText"
    /\ ev' = [op |-> "truncateText", text |-> ev.text, maxLength |-> ev.maxLength,
              result |-> truncateText(ev.text, ev.maxLength)]
    /\ UNCHANGED <<tabUrl, tabAnalysisResults, sessionProceededUrls, apiKey,
                   calls, loads, aiResponse, popup>>

(* lines 131-148: the lists of dataToAnalyze, and truncatedJsonData, of    *)
(* which the event keeps the length and whether it ends with the marker    *)
BuildPayload ==
    /\ ev.op = "call dataToAnalyze"
    /\ LET truncatedJsonData ==
              truncateText(Serialized(ev.len), Number(MAX_DATA_PAYLOAD_CHARS, 1))
       IN  ev' = [op |-> "dataToAnalyze",
                  external_script_urls |-> slice(filterTruthy(ev.scripts), 15),
                  form_details |-> slice(ev.forms, 7),
                  iframe_sources |-> slice(filterTruthy(ev.iframes), 7),
                  external_links_sample |-> slice(filterTruthy(ev.links), 15),
                  jsonDataString |-> ev.len,
                  truncatedJsonData |-> Len(truncatedJsonData),
                  marked |-> endsWith(truncatedJsonData, Marker)]
    /\ UNCHANGED <<tabUrl, tabAnalysisResults, sessionProceededUrls, apiKey,
                   calls, loads, aiResponse, popup>>

NextPayload ==
    \/ TruncateText
    \/ BuildPayload

SpecPayload == InitPayload /\ [][NextPayload]_vars

-----------------------------------------------------------------------------
(* Vocabulary of the properties *)

ResultOf(tabId) == tabAnalysisResults[tabId]

(* The step ended the handling of a PAGE_DATA message: the record was      *)
(* reused, or analyzeWithAI returned, or its promise rejected.             *)
Handled ==
    \/ ev.op = "PAGE_DATA" /\ ev.out = "cached"
    \/ ev.op = "analyzeWithAI" /\ ev.out \in {"nokey", "whitelisted", "proceeded", "threw"}
    \/ ev.op = "fetchSettles"

(* The domain of the URL ends with the characters of a whitelist entry *)
DomainSuffixMatches(url) ==
    LET d == getDomain(url)
    IN  \E w \in WHITELISTED_DOMAINS :
           \E k \in 0..Len(d) : SubSeq(d, k + 1, Len(d)) = w

(* C1: for every page-data event whose URL's domain suffix-matches a       *)
(* whitelist entry the classifier is never invoked: no analyzeWithAI call  *)
(* for such a URL reaches its fetch, and no fetch for such a URL settles.  *)
C1_WhitelistedNeverFetched ==
    /\ \A c \in BagToSet(calls) : DomainSuffixMatches(c.url) => c.stage # "fetch"
    /\ DomainSuffixMatches(ev.url) =>
          /\ ev.op # "fetchSettles"
          /\ ~(ev.op = "analyzeWithAI" /\ ev.out = "fetch")

(* A page-data event for a whitelisted URL was answered by the whitelist *)
C1_Witness ==
    /\ ev.op = "analyzeWithAI"
    /\ ev.out = "whitelisted"
    /\ DomainSuffixMatches(ev.url)
    /\ apiKey

(* C2: after a page-data event whose URL's domain suffix-matches a         *)
(* whitelist entry has been handled, the tab's verdict is SAFE, whatever   *)
(* the prior record and whether or not a credential is stored.             *)
C2_WhitelistedAlwaysSafe ==
    (Handled /\ DomainSuffixMatches(ev.url)) =>
        /\ hasResult(ev.tabId)
        /\ ResultOf(ev.tabId).status = "SAFE"

(* C3: once a URL is in the session override set, every page-data event    *)
(* with that URL that arrives later ends with the tab's verdict SAFE.      *)
C3_ProceededAlwaysSafe ==
    (Handled /\ ev.proceeded) =>
        /\ hasResult(ev.tabId)
        /\ ResultOf(ev.tabId).status = "SAFE"

(* C4: once a URL is in the session override set, no page-data event with  *)
(* that URL that arrives later invokes the classifier, however old the     *)
(* tab's record is.                                                        *)
C4_ProceededNeverFetched ==
    /\ \A c \in BagToSet(calls) : c.proceeded => c.stage # "fetch"
    /\ ev.proceeded =>
          /\ ev.op # "fetchSettles"
          /\ ~(ev.op = "analyzeWithAI" /\ ev.out = "fetch")

(* A page-data event for an overridden URL met a record older than the     *)
(* cache duration and reused it                                            *)
C4_Witness ==
    /\ ev.op = "PAGE_DATA"
    /\ ev.out = "cached"
    /\ ev.proceeded
    /\ ResultOf(ev.tabId).age >= ANALYSIS_CACHE_DURATION_MS

(* The PAGE_DATA message met a record of its own URL on its tab *)
RepeatedPageData ==
    /\ ev.op = "PAGE_DATA"
    /\ hasResult(ev.tabId)
    /\ ResultOf(ev.tabId).url = ev.url

(* C5 as stated: a repeated page-data event for the record's URL reuses    *)
(* the record when the record is younger than 3 minutes, and is not        *)
(* answered from the record when it is 3 minutes old or older.             *)
C5_ReuseExactlyWithinTTL ==
    RepeatedPageData =>
        ((ResultOf(ev.tabId).age < ANALYSIS_CACHE_DURATION_MS) <=> (ev.out = "cached"))

(* C5 as amended: a repeated page-data event for the record's URL reuses   *)
(* the record, starting no analysis and writing nothing, when the record   *)
(* is younger than 3 minutes or the URL is in the session override set;    *)
(* otherwise it starts a new analysis of the page.                         *)
C5_ReuseWithinTTLOrProceeded ==
    [][ (ev'.op = "PAGE_DATA" /\ hasResult(ev'.tabId)
                              /\ ResultOf(ev'.tabId).url = ev'.url) =>
          IF \/ ResultOf(ev'.tabId).age < ANALYSIS_CACHE_DURATION_MS
             \/ ev'.url \in sessionProceededUrls
          THEN /\ ev'.out = "cached"
               /\ UNCHANGED <<calls, tabAnalysisResults>>
          ELSE /\ ev'.out = "initiated"
               /\ calls' = calls (+) SetToBag({Call("getApiKey", ev'.tabId, ev'.url, FALSE)})
               /\ UNCHANGED tabAnalysisResults ]_vars

(* A repeated page-data event met an expired record and started an analysis *)
C5_Witness ==
    /\ RepeatedPageData
    /\ ev.out = "initiated"
    /\ ResultOf(ev.tabId).age >= ANALYSIS_CACHE_DURATION_MS

(* C6: PROCEED_ANYWAY for a tab without a record answers success: false    *)
(* and changes neither the result store nor the override set; for a tab    *)
(* with a record it adds the record's URL to the override set, overwrites  *)
(* the tab's record with SAFE for that URL and answers with the new record.*)
C6_ProceedAnyway ==
    [][ ev'.op = "PROCEED_ANYWAY" =>
          IF ~hasResult(ev'.tabId)
          THEN /\ ev'.reply.success = FALSE
               /\ UNCHANGED <<tabAnalysisResults, sessionProceededUrls>>
          ELSE /\ sessionProceededUrls' =
                     sessionProceededUrls \cup {ResultOf(ev'.tabId).url}
               /\ tabAnalysisResults'[ev'.tabId].kind = "record"
               /\ tabAnalysisResults'[ev'.tabId].status = "SAFE"
               /\ tabAnalysisResults'[ev'.tabId].url = ResultOf(ev'.tabId).url
               /\ \A t \in TabIds \ {ev'.tabId} : tabAnalysisResults'[t] = ResultOf(t)
               /\ ev'.reply.success = TRUE
               /\ ev'.reply.newStatus = tabAnalysisResults'[ev'.tabId] ]_vars

(* PROCEED_ANYWAY succeeded on a tab whose record is of another URL than   *)
(* the page the tab shows                                                  *)
C6_Witness ==
    /\ ev.op = "PROCEED_ANYWAY"
    /\ ev.reply.success
    /\ ev.url \in sessionProceededUrls
    /\ tabUrl[ev.tabId] # ev.url

(* C7: once a tab is closed, GET_TAB_STATUS for it answers the PENDING     *)
(* placeholder, also when a classification was in flight at the close.     *)
C7_ClosedTabIsPending ==
    (ev.op = "GET_TAB_STATUS" /\ tabUrl[ev.tabId] = Closed) =>
        ev.reply = PendingPlaceholder

(* C8: a classifier response that arrives after its tab has gone to a      *)
(* different URL is discarded: it leaves the result store as it is.        *)
C8_StaleResponseDiscarded ==
    [][ (ev'.op = "fetchSettles" /\ tabUrl[ev'.tabId] \in Urls
                                 /\ tabUrl[ev'.tabId] # ev'.url) =>
          UNCHANGED tabAnalysisResults ]_vars

-----------------------------------------------------------------------------
(* Properties of one classifier completion (SpecAI) *)

TextPartOf(r) == r.body.text

HasTextPart(r) ==
    /\ r.t = "http"
    /\ r.body.t = "object"
    /\ r.body.candidates = "text"

(* The body, or the inner text part, is not parseable JSON *)
NotParseable(r) ==
    \/ r.t = "http" /\ r.body.t = "notjson"
    \/ HasTextPart(r) /\ TextPartOf(r).t = "notjson"

StatusPresent(v) ==
    /\ v.status.t \in {"number", "string"}
    /\ v.status # [t |-> "string", s |-> <<>>]

(* The parsed text part has no truthy status or no truthy explanation *)
LacksField(r) ==
    /\ HasTextPart(r)
    /\ TextPartOf(r).t = "json"
    /\ \/ TextPartOf(r).v.t # "object"
       \/ ~StatusPresent(TextPartOf(r).v)
       \/ ~TextPartOf(r).v.explanation

(* C9: a completion whose body or inner text part is not parseable JSON,   *)
(* or whose parsed object lacks a truthy status or explanation, writes a   *)
(* record with status ERROR.                                               *)
C9_MalformedIsError ==
    (ev.op = "fetchSettles" /\ (NotParseable(aiResponse) \/ LacksField(aiResponse))) =>
        /\ hasResult(ev.tabId)
        /\ ResultOf(ev.tabId).status = "ERROR"

(* The text part said SAFE and left the explanation out *)
C9_Witness ==
    /\ ev.op = "fetchSettles"
    /\ LacksField(aiResponse)
    /\ TextPartOf(aiResponse).v.t = "object"
    /\ TextPartOf(aiResponse).v.status = [t |-> "string", s |-> STATUS_SAFE]
    /\ ResultOf(ev.tabId).status = "ERROR"

(* A successful response whose text part is an object with a truthy status *)
(* and an explanation                                                      *)
StatusAndExplanationPresent(r) ==
    /\ HasTextPart(r)
    /\ r.ok
    /\ TextPartOf(r).t = "json"
    /\ TextPartOf(r).v.t = "object"
    /\ StatusPresent(TextPartOf(r).v)
    /\ TextPartOf(r).v.explanation

SameLetter(a, b) ==
    \/ a = b
    \/ \E n \in 1..Len(LowerCase) : a = LowerCase[n] /\ b = UpperCase[n]

(* s is known, written in any case and with white space around it *)
SpellingOf(s, known) ==
    \E i \in 0..Len(s) :
        /\ \A k \in 1..i : s[k] \in {" ", "\t"}
        /\ i + Len(known) <= Len(s)
        /\ \A k \in 1..Len(known) : SameLetter(s[i + k], known[k])
        /\ \A k \in (i + Len(known) + 1)..Len(s) : s[k] \in {" ", "\t"}

StatusSpells(status, known) ==
    /\ status.t = "string"
    /\ SpellingOf(status.s, known)

(* The status a present status stands for: the one of the three it spells, *)
(* SUSPICIOUS when it spells none                                          *)
StatusSpelled(status) ==
    IF StatusSpells(status, STATUS_SAFE) THEN "SAFE"
    ELSE IF StatusSpells(status, STATUS_SUSPICIOUS) THEN "SUSPICIOUS"
    ELSE IF StatusSpells(status, STATUS_DANGEROUS) THEN "DANGEROUS"
    ELSE "SUSPICIOUS"

(* C10 as stated: a response with status and explanation present yields    *)
(* the status it spells, in any case and with white space around it, when  *)
(* that is SAFE, SUSPICIOUS or DANGEROUS, and SUSPICIOUS for every other   *)
(* status.                                                                 *)
C10_PresentStatusNormalized ==
    (ev.op = "fetchSettles" /\ StatusAndExplanationPresent(aiResponse)) =>
        /\ hasResult(ev.tabId)
        /\ ResultOf(ev.tabId).status = StatusSpelled(TextPartOf(aiResponse).v.status)

(* C10 as amended: a successful response with an explanation and a status  *)
(* that is a non-empty string yields the status the string spells, in any  *)
(* case and with white space around it, when that is SAFE, SUSPICIOUS or   *)
(* DANGEROUS, and SUSPICIOUS for every other string; a present status that *)
(* is not a string yields ERROR.                                           *)
C10_StringStatusNormalized ==
    (ev.op = "fetchSettles" /\ StatusAndExplanationPresent(aiResponse)) =>
        /\ hasResult(ev.tabId)
        /\ ResultOf(ev.tabId).status =
              IF TextPartOf(aiResponse).v.status.t = "string"
              THEN StatusSpelled(TextPartOf(aiResponse).v.status)
              ELSE "ERROR"

(* The status "weird" was answered with SUSPICIOUS *)
C10_Witness ==
    /\ ev.op = "fetchSettles"
    /\ StatusAndExplanationPresent(aiResponse)
    /\ TextPartOf(aiResponse).v.status = [t |-> "string", s |-> <<"w","e","i","r","d">>]
    /\ ResultOf(ev.tabId).status = "SUSPICIOUS"

-----------------------------------------------------------------------------
(* The calls of the bag b that are suspended at stage, with their copies *)
InFlight(b, stage) ==
    [c \in {x \in BagToSet(b) : x.stage = stage} |-> CopiesIn(c, b)]

(* The step handled a page-data message by reusing the tab's record *)
AnsweredFromRecord(e) ==
    /\ e.op \in {"PAGE_DATA", "saveApiKey"}
    /\ e.out = "cached"

(* C11 as stated: when no API credential is stored, a page-data event      *)
(* yields a record with status ERROR that mentions the missing credential. *)
C11_NoKeyAlwaysError ==
    (~apiKey /\ (AnsweredFromRecord(ev) \/ (ev.op = "analyzeWithAI" /\ ev.out # "fetch"))) =>
        /\ hasResult(ev.tabId)
        /\ ResultOf(ev.tabId).status = "ERROR"
        /\ ResultOf(ev.tabId).explanation = "API key missing"

(* C11 as amended: when no API credential is stored as the analysis of a   *)
(* page-data event reads it, the analysis writes a record with status      *)
(* ERROR that mentions the missing credential, for the URL of the event,   *)
(* and starts no classifier request; a page-data event that is answered    *)
(* from the tab's record reads no credential and leaves the record and the *)
(* classifier requests as they are.                                        *)
C11_NoKeyIsErrorUnlessReused ==
    [][ /\ (ev'.op = "analyzeWithAI" /\ ~apiKey) =>
              /\ ev'.out = "nokey"
              /\ tabAnalysisResults'[ev'.tabId] =
                    Record(ev'.url, "ERROR", "API key missing", 0)
              /\ InFlight(calls', "fetch") = InFlight(calls, "fetch")
        /\ (AnsweredFromRecord(ev') /\ ~apiKey') =>
              /\ tabAnalysisResults' = tabAnalysisResults
              /\ calls' = calls ]_vars

(* Without a key, the analysis of a page that is not whitelisted wrote the *)
(* ERROR record over another record of the tab                             *)
C11_Witness ==
    /\ ev.op = "analyzeWithAI"
    /\ ev.out = "nokey"
    /\ ~apiKey
    /\ ~DomainSuffixMatches(ev.url)
    /\ ResultOf(ev.tabId).status = "ERROR"
    /\ Suspended("fetch") # {}

-----------------------------------------------------------------------------
(* C12: a step creates a verdict notification only when it is a classifier *)
(* completion that has just written a DANGEROUS or SUSPICIOUS record:      *)
(* cache hits, override and whitelist short-circuits, PROCEED_ANYWAY,      *)
(* GET_TAB_STATUS, navigation and tab close create none.                   *)
C12_NotifiesOnlyOnFreshVerdict ==
    ev.notification # <<>> =>
        /\ ev.op = "fetchSettles"
        /\ hasResult(ev.tabId)
        /\ ResultOf(ev.tabId).url = ev.url
        /\ ResultOf(ev.tabId).age = 0
        /\ ResultOf(ev.tabId).status \in {"DANGEROUS", "SUSPICIOUS"}

(* A page-data event reused a DANGEROUS record and created no notification *)
C12_Witness ==
    /\ AnsweredFromRecord(ev)
    /\ ResultOf(ev.tabId).status = "DANGEROUS"
    /\ ev.notification = <<>>

(* C13: a classifier completion that yields DANGEROUS creates exactly one  *)
(* notification, of its tab, with two buttons; one that yields SUSPICIOUS  *)
(* creates exactly one, of its tab, without buttons; one that yields SAFE  *)
(* or ERROR creates none.                                                  *)
C13_OneAlertPerVerdict ==
    ev.op = "fetchSettles" =>
        LET status == ResultOf(ev.tabId).status
        IN  IF status \in {"DANGEROUS", "SUSPICIOUS"}
            THEN /\ Len(ev.notification) = 1
                 /\ ev.notification[1].tabId = ev.tabId
                 /\ ev.notification[1].id =
                       (IF status = "DANGEROUS" THEN "danger" ELSE "suspicious")
                 /\ ev.notification[1].buttons = (IF status = "DANGEROUS" THEN 2 ELSE 0)
            ELSE ev.notification = <<>>

(* A completion yielded SUSPICIOUS and created the one notification *)
C13_Witness ==
    /\ ev.op = "fetchSettles"
    /\ ResultOf(ev.tabId).status = "SUSPICIOUS"
    /\ Len(ev.notification) = 1

-----------------------------------------------------------------------------
(* The hostname of the URL with a leading www. stripped *)
DomainOf(url) ==
    IF Len(url.host) >= 4 /\ SubSeq(url.host, 1, 4) = <<"w", "w", "w", ".">>
    THEN SubSeq(url.host, 5, Len(url.host))
    ELSE url.host

(* C14 as stated: a navigation-completed event on a tab with a record, to  *)
(* a URL whose domain differs from the domain of the record's URL, leaves  *)
(* the tab without a record; when the domains are equal the record is      *)
(* left unchanged.                                                         *)
C14_NavigationInvalidates ==
    [][ (ev'.op = "onUpdated" /\ hasResult(ev'.tabId)) =>
          IF DomainOf(ResultOf(ev'.tabId).url) # DomainOf(ev'.url)
          THEN tabAnalysisResults'[ev'.tabId].kind # "record"
          ELSE tabAnalysisResults'[ev'.tabId] = ResultOf(ev'.tabId) ]_vars

(* C14 as amended: a navigation-completed event on a tab with a record, to *)
(* an http(s) URL whose domain differs from the domain of the record's     *)
(* URL, leaves the tab without a record, so that GET_TAB_STATUS answers    *)
(* the placeholder; when the domains are equal, or the new URL is not an   *)
(* http(s) URL, the record is left unchanged.  No other tab's record       *)
(* changes.                                                                *)
C14_HttpNavigationInvalidates ==
    [][ (ev'.op = "onUpdated" /\ hasResult(ev'.tabId)) =>
          /\ IF ev'.url \in Urls /\ DomainOf(ResultOf(ev'.tabId).url) # DomainOf(ev'.url)
             THEN /\ tabAnalysisResults'[ev'.tabId].kind # "record"
                  /\ \E t \in TabIds : t = ev'.tabId /\ getTabStatusReply(t)' = PendingPlaceholder
             ELSE tabAnalysisResults'[ev'.tabId] = ResultOf(ev'.tabId)
          /\ \A t \in TabIds \ {ev'.tabId} : tabAnalysisResults'[t] = ResultOf(t) ]_vars

(* A navigation to another domain has left the tab without its record *)
C14_Witness ==
    /\ ev.op = "onUpdated"
    /\ ev.url \in Urls
    /\ ResultOf(ev.tabId) = Null

-----------------------------------------------------------------------------
(* C15: GET_TAB_STATUS always answers, and changes neither the result      *)
(* store nor the override set: the answer is the tab's record when there   *)
(* is one and the placeholder {status: PENDING} otherwise, also when the   *)
(* slot was set to null by a navigation.                                   *)
C15_GetStatusIsPureRead ==
    [][ ev'.op = "GET_TAB_STATUS" =>
          /\ tabAnalysisResults' = tabAnalysisResults
          /\ sessionProceededUrls' = sessionProceededUrls
          /\ ev'.reply.kind \in {"record", "placeholder"}
          /\ ev'.reply.kind = "record" <=> ResultOf(ev'.tabId).kind = "record"
          /\ ev'.reply.kind = "record" => ev'.reply = ResultOf(ev'.tabId)
          /\ ev'.reply.kind = "placeholder" => ev'.reply.status = "PENDING" ]_vars

(* GET_TAB_STATUS answered the placeholder for a slot that holds null *)
C15_Witness ==
    /\ ev.op = "GET_TAB_STATUS"
    /\ ResultOf(ev.tabId) = Null
    /\ ev.reply = PendingPlaceholder

-----------------------------------------------------------------------------
(* C16: the analysis of a page-data message with a well-formed URL, with   *)
(* or without its other fields, ends without a fault: when analyzeWithAI   *)
(* returns before its fetch it has written a record for the URL of the     *)
(* message on the tab.                                                     *)
C16_OptionalFieldsHandled ==
    (ev.op = "analyzeWithAI" /\ ev.out # "fetch") =>
        /\ ev.out # "threw"
        /\ hasResult(ev.tabId)
        /\ ResultOf(ev.tabId).url = ev.url
        /\ ResultOf(ev.tabId).age = 0

-----------------------------------------------------------------------------
(* C17: a page-data event for a URL that is not itself in the session      *)
(* override set, whatever URLs of the same domain are in it, is handled as *)
(* if there were no override: it is answered from the tab's record only    *)
(* when that record is of the same URL and younger than the cache          *)
(* duration, and its analysis goes through the credential and whitelist    *)
(* tests to the classifier, never through the override short-circuit.      *)
C17_OverrideIsExactUrl ==
    [][ (ev'.op \in {"PAGE_DATA", "saveApiKey", "analyzeWithAI"}
            /\ ev'.url \notin sessionProceededUrls) =>
          /\ ev'.out # "proceeded"
          /\ ev'.out = "cached" =>
                /\ hasResult(ev'.tabId)
                /\ ResultOf(ev'.tabId).url = ev'.url
                /\ ResultOf(ev'.tabId).age < ANALYSIS_CACHE_DURATION_MS
          /\ ev'.op = "analyzeWithAI" =>
                ev'.out \in (IF ~apiKey THEN {"nokey"}
                             ELSE IF DomainSuffixMatches(ev'.url) THEN {"whitelisted"}
                             ELSE {"fetch", "threw"}) ]_vars

(* The analysis of a URL went to the classifier while another URL of the   *)
(* same domain was overridden                                              *)
C17_Witness ==
    /\ ev.op = "analyzeWithAI"
    /\ ev.out = "fetch"
    /\ ev.url \notin sessionProceededUrls
    /\ \E u \in sessionProceededUrls : DomainOf(u) = DomainOf(ev.url)

-----------------------------------------------------------------------------
(* C18: when the user saves an API key in the popup of a tab that shows an *)
(* http(s) page, the page-data message of the re-injected content script   *)
(* starts a new analysis of the page, whatever record the tab holds.       *)
C18_SaveKeyReanalyzes ==
    (ev.op = "saveApiKey" /\ ev.out # "noinject") => ev.out = "initiated"

-----------------------------------------------------------------------------
(* C19: while the popup of an open tab displays a verdict, the status and  *)
(* explanation it displays are those of the tab's current record in the    *)
(* store, and PENDING when the store holds no record for the tab.          *)
C19_PopupShowsCurrentRecord ==
    (popup.open /\ popup.view = "verdict" /\ tabUrl[popup.currentTabId] # Closed) =>
        IF hasResult(popup.currentTabId)
        THEN /\ popup.status = tabAnalysisResults[popup.currentTabId].status
             /\ popup.explanation = tabAnalysisResults[popup.currentTabId].explanation
        ELSE popup.status = "PENDING"

-----------------------------------------------------------------------------
(* C20: whenever the popup displays what updatePopupUI rendered, the Go    *)
(* Back and Proceed Anyway actions are visible exactly when the displayed  *)
(* status is SUSPICIOUS or DANGEROUS; they are hidden for SAFE, ERROR,     *)
(* PENDING and for missing data.                                           *)
C20_ActionsIffRisky ==
    (popup.open /\ popup.view \in {"verdict", "awaiting"}) =>
        (popup.actions <=> popup.status \in {"SUSPICIOUS", "DANGEROUS"})

(* A classifier completion pushed DANGEROUS to the open popup, which shows  *)
(* the two actions.                                                        *)
C20_Witness ==
    /\ popup.open /\ popup.view = "verdict"
    /\ ev.op = "fetchSettles" /\ ev.out = "written"
    /\ popup.status = "DANGEROUS" /\ popup.actions

-----------------------------------------------------------------------------
(* C21: within one reading of the clock, page data that arrives more than  *)
(* once for the same URL on the same tab, the URL being neither            *)
(* whitelisted nor overridden, invokes the classifier at most once: two    *)
(* classifier calls for the same tab and URL are never in flight together. *)
C21_OneClassificationPerPage ==
    \A c \in BagToSet(calls), d \in BagToSet(calls) :
        ( /\ c.stage = "fetch" /\ d.stage = "fetch"
          /\ c.tabId = d.tabId /\ c.url = d.url
          /\ c.url \notin sessionProceededUrls
          /\ ~DomainSuffixMatches(c.url) )
        => (c = d /\ CopiesIn(c, calls) = 1)

-----------------------------------------------------------------------------
(* C22: tabs are isolated.  A step that handles page data, resumes or      *)
(* completes a classification, proceeds anyway, navigates or closes a tab  *)
(* leaves the record of every other tab as it was.                         *)
C22_TabsIsolated ==
    [][ \A t \in TabIds :
           ( /\ ev'.op \in {"navigate", "PAGE_DATA", "analyzeWithAI", "fetchSettles",
                            "PROCEED_ANYWAY", "onUpdated", "onRemoved"}
             /\ t # ev'.tabId )
           => tabAnalysisResults'[t] = tabAnalysisResults[t] ]_vars

(* The classification of tab 1 is still suspended at its fetch, and the    *)
(* page data of tab 2 was handled meanwhile, to the written record, which  *)
(* left tab 1 without one.                                                 *)
C22_Witness ==
    /\ \E c \in BagToSet(calls) : c.tabId = 1 /\ c.stage = "fetch"
    /\ ev.op = "fetchSettles" /\ ev.tabId = 2
    /\ hasResult(2) /\ ~hasResult(1)

-----------------------------------------------------------------------------
(* The number of suspended calls of the bag b that are at the given stage *)
CountAt(b, stage) == BagCardinality(InFlight(b, stage))

(* C23: each page-data event starts at most one analyzeWithAI call, a call *)
(* reaches the classifier at most once, and nothing but a page-data event  *)
(* starts a call: a completion with status ERROR is recorded and ends its  *)
(* call, without starting another.                                         *)
C23_NoAutomaticRetry ==
    [][ /\ BagCardinality(calls') > BagCardinality(calls) =>
              /\ ev'.op \in {"PAGE_DATA", "saveApiKey"}
              /\ ev'.out = "initiated"
              /\ BagCardinality(calls') = BagCardinality(calls) + 1
              /\ CountAt(calls', "fetch") = CountAt(calls, "fetch")
        /\ CountAt(calls', "fetch") > CountAt(calls, "fetch") =>
              /\ ev'.op = "analyzeWithAI" /\ ev'.out = "fetch"
              /\ CountAt(calls', "fetch") = CountAt(calls, "fetch") + 1
              /\ CountAt(calls', "getApiKey") = CountAt(calls, "getApiKey") - 1
        /\ ev'.op = "fetchSettles" =>
              /\ BagCardinality(calls') = BagCardinality(calls) - 1
              /\ CountAt(calls', "getApiKey") = CountAt(calls, "getApiKey")
              /\ tabAnalysisResults'[ev'.tabId].kind = "record"
              /\ tabAnalysisResults'[ev'.tabId].url = ev'.url ]_vars

(* A completion was recorded as ERROR and no call is left *)
C23_Witness ==
    /\ ev.op = "fetchSettles"
    /\ hasResult(ev.tabId)
    /\ tabAnalysisResults[ev.tabId].status = "ERROR"
    /\ calls = EmptyBag

-----------------------------------------------------------------------------
(* The step wrote the record that ends the analysis of URL u on tab t *)
WroteFor(t, u) ==
    /\ ev.tabId = t /\ ev.url = u
    /\ \/ ev.op = "analyzeWithAI" /\ ev.out \in {"nokey", "whitelisted", "proceeded"}
       \/ ev.op = "fetchSettles" /\ ev.out = "written"
    /\ hasResult(t)
    /\ tabAnalysisResults[t].url = u
    /\ tabAnalysisResults[t].status \in {"SAFE", "SUSPICIOUS", "DANGEROUS", "ERROR"}

(* C24: when the credential lookup and the classifier call always return   *)
(* or fail, every page-data event that is not answered from the cache      *)
(* leads to a record for its tab and URL with status SAFE, SUSPICIOUS,     *)
(* DANGEROUS or ERROR.                                                     *)
C24_PageDataLeadsToRecord ==
    \A t \in TabIds, u \in Urls :
        (ev.op = "PAGE_DATA" /\ ev.out = "initiated" /\ ev.tabId = t /\ ev.url = u)
            ~> WroteFor(t, u)

-----------------------------------------------------------------------------
(* C25: a page-data event that is answered from the record leaves the      *)
(* result store as it was, the age of the record included, and a record of *)
(* a URL that is not in the override set is reused only while it is        *)
(* younger than 3 minutes, counted from its write.                         *)
C25_CacheHitKeepsTimestamp ==
    [][ AnsweredFromRecord(ev') =>
           /\ tabAnalysisResults' = tabAnalysisResults
           /\ tabAnalysisResults[ev'.tabId].kind = "record"
           /\ tabAnalysisResults[ev'.tabId].url = ev'.url
           /\ ev'.url \notin sessionProceededUrls =>
                 tabAnalysisResults'[ev'.tabId].age < ANALYSIS_CACHE_DURATION_MS ]_vars

(* A record written a minute and a half ago was reused, and is still a     *)
(* minute and a half old                                                   *)
C25_Witness ==
    /\ AnsweredFromRecord(ev)
    /\ ev.url \notin sessionProceededUrls
    /\ tabAnalysisResults[ev.tabId].age = TickMs

-----------------------------------------------------------------------------
(* C26: the session override set only grows.  No step removes a URL from   *)
(* it, and the only step that adds one is PROCEED_ANYWAY on a tab that has *)
(* a record, which adds the URL of that record.                            *)
C26_OverrideSetOnlyGrows ==
    [][ /\ sessionProceededUrls \subseteq sessionProceededUrls'
        /\ sessionProceededUrls' # sessionProceededUrls =>
              /\ ev'.op = "PROCEED_ANYWAY"
              /\ tabAnalysisResults[ev'.tabId].kind = "record"
              /\ sessionProceededUrls' =
                    sessionProceededUrls \cup {tabAnalysisResults[ev'.tabId].url}
        /\ (ev'.op = "PROCEED_ANYWAY" /\ tabAnalysisResults[ev'.tabId].kind # "record") =>
              sessionProceededUrls' = sessionProceededUrls ]_vars

(* The tab of an overridden URL was closed and the URL is still overridden *)
C26_Witness ==
    /\ ev.op = "onRemoved"
    /\ sessionProceededUrls # {}
    /\ \A t \in TabIds : ~hasResult(t)

-----------------------------------------------------------------------------
(* The text of the call is a string longer than the maximum *)
ExceedsMax(e) == Len(e.text.s) * e.maxLength.d > e.maxLength.n

(* The lists of the payload are capped, scripts and links to 15 entries,   *)
(* forms and iframes to 7, and the serialized payload to 30000 characters  *)
PayloadCapped(e) ==
    /\ Len(e.external_script_urls) <= 15
    /\ Len(e.form_details) <= 7
    /\ Len(e.iframe_sources) <= 7
    /\ Len(e.external_links_sample) <= 15
    /\ e.truncatedJsonData <= 30000

(* C27 as stated: truncateText(text, max) returns the text unchanged when  *)
(* its length is at most max, and otherwise a string of length exactly max *)
(* that ends with "..."; the payload and its lists are capped.             *)
C27_TruncatesToExactlyMax ==
    /\ (ev.op = "truncateText" /\ ev.text.t = "string") =>
          IF ExceedsMax(ev)
          THEN /\ Len(ev.result) * ev.maxLength.d = ev.maxLength.n
               /\ endsWith(ev.result, <<".", ".", ".">>)
          ELSE ev.result = ev.text.s
    /\ ev.op = "dataToAnalyze" => PayloadCapped(ev)

(* C27 as amended: truncateText(text, max) returns the text unchanged when *)
(* its length is at most max, and "" when the text is missing; otherwise   *)
(* it returns the first max - 3 characters of the text, none when max < 3, *)
(* followed by "...".  For max >= 3 the result has max characters, rounded *)
(* down when max is not an integer; for max < 3 it has 3.  The payload and *)
(* its lists are capped.                                                   *)
C27_TruncatesWithinMax ==
    /\ (ev.op = "truncateText" /\ ev.text.t = "absent") => ev.result = <<>>
    /\ (ev.op = "truncateText" /\ ev.text.t = "string") =>
          IF ExceedsMax(ev)
          THEN LET kept == Len(ev.result) - 3
               IN  /\ kept >= 0
                   /\ ev.result = SubSeq(ev.text.s, 1, kept) \o <<".", ".", ".">>
                   /\ Len(ev.result) =
                         IF ev.maxLength.n >= 3 * ev.maxLength.d
                         THEN ev.maxLength.n \div ev.maxLength.d
                         ELSE 3
          ELSE ev.result = ev.text.s
    /\ ev.op = "dataToAnalyze" =>
          /\ PayloadCapped(ev)
          /\ ev.jsonDataString > 30000 => (ev.truncatedJsonData = 30000 /\ ev.marked)

(* A text of five characters was cut to the maximum 17 / 4: the result has *)
(* four characters and ends with the marker                                *)
C27_Witness ==
    /\ ev.op = "truncateText"
    /\ ev.text.t = "string"
    /\ Len(ev.text.s) = 5
    /\ ev.maxLength = [n |-> 17, d |-> 4]
    /\ Len(ev.result) = 4
    /\ endsWith(ev.result, <<".", ".", ".">>)

-----------------------------------------------------------------------------
(* The classifier answered with an explanation and a status that spells    *)
(* SAFE, in any case and with white space around it                        *)
SaysSafe(r) ==
    /\ StatusAndExplanationPresent(r)
    /\ StatusSpells(TextPartOf(r).v.status, STATUS_SAFE)

(* The step e wrote for tab t on one of the four paths that may write SAFE *)
SafePath(e, t) ==
    /\ e.tabId = t
    /\ \/ e.op = "analyzeWithAI" /\ e.out = "whitelisted" /\ DomainSuffixMatches(e.url)
       \/ e.op = "analyzeWithAI" /\ e.out = "proceeded" /\ e.url \in sessionProceededUrls
       \/ e.op = "PROCEED_ANYWAY" /\ e.out = "success"
       \/ e.op = "fetchSettles" /\ SaysSafe(aiResponse)

(* C28: a record with status SAFE is written only for a whitelisted        *)
(* domain, for a URL of the session override set, by PROCEED_ANYWAY on the *)
(* tab, or for a classifier answer that carries an explanation and a       *)
(* status that normalizes to SAFE; a completion that is an error, a block  *)
(* or a malformed response never leaves a SAFE record.                     *)
C28_SafeOnlyOnTrustedPaths ==
    [][ /\ \A t \in TabIds :
              ( /\ tabAnalysisResults'[t] # tabAnalysisResults[t]
                /\ tabAnalysisResults'[t].kind = "record"
                /\ tabAnalysisResults'[t].status = "SAFE" )
              => SafePath(ev', t)
        /\ (ev'.op = "fetchSettles" /\ ~SaysSafe(aiResponse)) =>
              /\ tabAnalysisResults'[ev'.tabId].kind = "record"
              /\ tabAnalysisResults'[ev'.tabId].status # "SAFE" ]_vars

(* The classifier answered " Safe " with an explanation, and SAFE was      *)
(* written                                                                 *)
C28_Witness ==
    /\ ev.op = "fetchSettles"
    /\ HasTextPart(aiResponse)
    /\ TextPartOf(aiResponse).t = "json"
    /\ TextPartOf(aiResponse).v.t = "object"
    /\ TextPartOf(aiResponse).v.status = [t |-> "string", s |-> <<" ","S","a","f","e"," ">>]
    /\ hasResult(ev.tabId)
    /\ tabAnalysisResults[ev.tabId].status = "SAFE"

-----------------------------------------------------------------------------
(* The domain of the URL is a whitelist entry or a subdomain of one *)
LabelSuffixMatches(url) ==
    LET d == getDomain(url)
    IN  \E w \in WHITELISTED_DOMAINS : d = w \/ endsWith(d, <<".">> \o w)

(* C29: analyzeWithAI treats a URL as whitelisted, writing SAFE without a  *)
(* classifier call, only when its domain equals a whitelist entry or ends  *)
(* with "." followed by one; a domain that ends with the characters of an  *)
(* entry without a label boundary goes on to the classifier.               *)
C29_TrustedOnlyAtLabelBoundary ==
    (ev.op = "analyzeWithAI" /\ ev.out = "whitelisted") => LabelSuffixMatches(ev.url)

-----------------------------------------------------------------------------
(* C30: once PROCEED_ANYWAY has put a URL in the session override set, no  *)
(* classifier completion writes DANGEROUS or SUSPICIOUS for that URL on    *)
(* any tab, and none raises a notification for it, the completions of the  *)
(* calls that were in flight at the moment of the override included.       *)
C30_NoAlarmAfterProceed ==
    (ev.op = "fetchSettles" /\ ev.url \in sessionProceededUrls) =>
        /\ ev.notification = NoNotification
        /\ hasResult(ev.tabId)
        /\ tabAnalysisResults[ev.tabId].status \notin {"DANGEROUS", "SUSPICIOUS"}

-----------------------------------------------------------------------------
(* C31: the URL that a successful PROCEED_ANYWAY for a tab adds to the     *)
(* session override set is the URL of the page the tab shows at that       *)
(* moment.                                                                 *)
C31_ProceedsToCurrentPage ==
    (ev.op = "PROCEED_ANYWAY" /\ ev.out = "success") =>
        /\ ev.url \in sessionProceededUrls
        /\ ev.url = tabUrl[ev.tabId]

-----------------------------------------------------------------------------
(* C32: GET_TAB_STATUS for an open tab never answers with a record whose   *)
(* URL is not the URL of the page the tab shows: after a navigation to a   *)
(* different URL, and until the verdict of the new page is written, the    *)
(* answer is the placeholder {status: PENDING}.                            *)
C32_StatusIsOfCurrentPage ==
    (ev.op = "GET_TAB_STATUS" /\ tabUrl[ev.tabId] # Closed) =>
        IF hasResult(ev.tabId) /\ tabAnalysisResults[ev.tabId].url = tabUrl[ev.tabId]
        THEN ev.reply = tabAnalysisResults[ev.tabId]
        ELSE ev.reply = [kind |-> "placeholder", status |-> "PENDING"]

====
